---- MODULE Spec2Model ----
(***************************************************************************)
(* Model of src/src/jira_check.py: the rule catalog (check_issue and the   *)
(* per-type checks), the evaluator (get_project_problem) and the reporting *)
(* loop of main().                                                         *)
(*                                                                         *)
(* Encoding of Python values:                                              *)
(*   - an optional value is a sequence: None is << >>, a value v is <<v>>; *)
(*   - a 'YYYY-MM-DD' string is the record [y, m, d] of its three numeric  *)
(*     fields, a '%Y-%m-%dT%H:%M:%S.%f%z' string is [y, m, d, H, tz];      *)
(*     strptime validates the fields as the C library does;                *)
(*   - a comment body is a sequence of tokens (a marker in some letter     *)
(*     case, or other text); str.lower maps each token to lower case;      *)
(*   - the result of a call is [exc, val]: exc is NoExc and val the        *)
(*     returned list, or exc names the exception the call raised;          *)
(*   - the issue type names written in Chinese in the source (lines 145    *)
(*     and 147) are spelled in pinyin here: "GuShi", "QueXian".            *)
(***************************************************************************)
EXTENDS Integers, Sequences, FiniteSets, TLC

\* ------------------------------------------------------------ bounds
MaxProjects == 2
MaxIssues == 2
MaxClock == 1

\* ------------------------------------------------------------ Python values
None == << >>
Some(v) == <<v>>

NoExc == "NoExc"
Return(list) == [exc |-> NoExc, val |-> list]
Raise(e) == [exc |-> e, val |-> << >>]

InList(x, list) == \E n \in 1..Len(list) : list[n] = x

\* ------------------------------------------------------------ dates
IsLeap(y) == (y % 4 = 0 /\ y % 100 # 0) \/ y % 400 = 0

DaysInMonth(y, m) ==
    IF m = 2 THEN (IF IsLeap(y) THEN 29 ELSE 28)
    ELSE IF m \in {4, 6, 9, 11} THEN 30 ELSE 31

ValidDate(s) ==
    /\ s.y \in 1..9999
    /\ s.m \in 1..12
    /\ s.d \in 1..DaysInMonth(s.y, s.m)

\* datetime.strptime(s, '%Y-%m-%d'): midnight of that day, or ValueError
strptime_date(s) ==
    IF ValidDate(s) THEN Return([y |-> s.y, m |-> s.m, d |-> s.d, H |-> 0])
    ELSE Raise("ValueError")

\* datetime.strptime(s, '%Y-%m-%dT%H:%M:%S.%f%z'): the fields as written
\* (the offset is kept as tzinfo, the fields are not shifted), or ValueError
strptime_datetime(s) ==
    IF ValidDate(s) /\ s.H \in 0..23
    THEN Return([y |-> s.y, m |-> s.m, d |-> s.d, H |-> s.H])
    ELSE Raise("ValueError")

\* datetime.date()
date(t) == [y |-> t.y, m |-> t.m, d |-> t.d]

\* date.__gt__
date_gt(a, b) ==
    \/ a.y > b.y
    \/ a.y = b.y /\ a.m > b.m
    \/ a.y = b.y /\ a.m = b.m /\ a.d > b.d

\* datetime.__gt__ on naive values
datetime_gt(a, b) ==
    \/ date_gt(date(a), date(b))
    \/ date(a) = date(b) /\ a.H > b.H

\* datetime.now() when the wall clock reads `c` hours after 2024-01-02 00:00
now_at(c) == [y |-> 2024, m |-> 1, d |-> 2 + (c \div 24), H |-> c % 24]

\* ------------------------------------------------------------ comments
Lower(tok) ==
    CASE tok = "[COMMITLINK]" -> "[commitlink]"
      [] tok = "[Version]" -> "[version]"
      [] tok = "[STEPS]" -> "[steps]"
      [] tok = "[Result]" -> "[result]"
      [] tok = "[Analyse]" -> "[analyse]"
      [] tok = "[SOLUTION]" -> "[solution]"
      [] tok = "Done" -> "done"
      [] OTHER -> tok

RECURSIVE join_bodies(_)
\* lines 187-189: comment += single_comment.body + "\n"
join_bodies(comments) ==
    IF comments = << >> THEN << >>
    ELSE Head(comments) \o <<"\n">> \o join_bodies(Tail(comments))

\* lines 187-190 (and 210-213): the lower-cased concatenation of the bodies
comment_text(issue) ==
    LET joined == join_bodies(issue.fields.comment.comments)
    IN [n \in 1..Len(joined) |-> Lower(joined[n])]

\* ------------------------------------------------------------ rule catalog
\* due_date_problem comparing the resolution time, not its date, with the due date
due_date_problem_by_time(issue, err_list, now) ==
    IF issue.fields.duedate = None
    THEN Return(Append(err_list, "No DudeDate"))
    ELSE LET due_date == strptime_date(issue.fields.duedate[1])
         IN IF due_date.exc # NoExc THEN Raise(due_date.exc)
            ELSE IF issue.fields.resolutiondate = None
            THEN IF datetime_gt(now, due_date.val)
                 THEN Return(Append(err_list, "Delay"))
                 ELSE Return(err_list)
            ELSE LET resolution == strptime_datetime(issue.fields.resolutiondate[1])
                 IN IF resolution.exc # NoExc THEN Raise(resolution.exc)
                    ELSE IF datetime_gt(resolution.val, due_date.val)
                    THEN Return(Append(err_list, "Delay"))
                    ELSE Return(err_list)

\* `now` is what datetime.now() (line 163) returns when the check runs: the
\* caller passes the reading of the wall clock at the time of the call.
\* lines 157-168: the due-date / delay part of __common_problem
due_date_problem(issue, err_list, now) ==
    IF issue.fields.duedate = None
    THEN Return(Append(err_list, "No DudeDate"))
    ELSE LET due_date == strptime_date(issue.fields.duedate[1])
         IN IF due_date.exc # NoExc THEN Raise(due_date.exc)
            ELSE IF issue.fields.resolutiondate = None
            THEN IF datetime_gt(now, due_date.val)
                 THEN Return(Append(err_list, "Delay"))
                 ELSE Return(err_list)
            ELSE LET resolution == strptime_datetime(issue.fields.resolutiondate[1])
                 IN IF resolution.exc # NoExc THEN Raise(resolution.exc)
                    ELSE IF date_gt(date(resolution.val), date(due_date.val))
                    THEN Return(Append(err_list, "Delay"))
                    ELSE Return(err_list)

\* lines 156-180: JiraCheckTool.__common_problem
common_problem(issue, err_list, now) ==
    LET due == due_date_problem(issue, err_list, now)
        e1 == due.val
        e2 == IF Len(issue.fields.fixVersions) = 0
              THEN Append(e1, "No FixVersions") ELSE e1
        e3 == IF ~InList("chengdu", issue.fields.components)
              THEN Append(e2, "No Component Chengdu") ELSE e2
        e4 == IF issue.fields.labels = None THEN Append(e3, "No Labels") ELSE e3
        e5 == IF issue.fields.customfield_11807 = None
              THEN Append(e4, "No Implementer") ELSE e4
    IN IF due.exc # NoExc THEN Raise(due.exc)
       \* issue.fields.security.name on a missing security level
       ELSE IF issue.fields.security = None THEN Raise("AttributeError")
       ELSE IF "Askey-Secure" # issue.fields.security[1].name
       THEN Return(Append(e5, "No Askey-Secure"))
       ELSE Return(e5)

\* story_points_of_story with the threshold moved from 3 to 5
story_points_of_story_above_5(issue, err_list) ==
    IF issue.fields.customfield_10408 = None
    THEN err_list \o <<"No StoryPoints", "No SubTask">>
    ELSE IF issue.fields.customfield_10408[1] > 5 /\ issue.fields.issuetype.subtask = FALSE
    THEN Append(err_list, "No SubTask")
    ELSE err_list

\* lines 198-202: story points and subtask of a Story
story_points_of_story(issue, err_list) ==
    IF issue.fields.customfield_10408 = None
    THEN err_list \o <<"No StoryPoints", "No SubTask">>
    ELSE IF issue.fields.customfield_10408[1] > 3 /\ issue.fields.issuetype.subtask = FALSE
    THEN Append(err_list, "No SubTask")
    ELSE err_list

\* lines 184-203: JiraCheckTool.check_story
check_story(issue, now) ==
    LET comment == comment_text(issue)
        e1 == IF ~InList("[commitlink]", comment)
              THEN <<"No Code">> ELSE << >>
        e2 == IF \/ ~InList("[version]", comment)
                 \/ ~InList("[steps]", comment)
                 \/ ~InList("[result]", comment)
              THEN Append(e1, "No Verification") ELSE e1
    IN common_problem(issue, story_points_of_story(issue, e2), now)

\* story_points_of_bug with >= in place of >
story_points_of_bug_from_3(issue, err_list) ==
    IF issue.fields.customfield_10408 = None
    THEN err_list \o <<"No StoryPoints", "No SubTask">>
    ELSE IF issue.fields.customfield_10408[1] >= 3 /\ issue.fields.issuetype.subtask = FALSE
    THEN Append(err_list, "No SubTask")
    ELSE err_list

\* lines 227-231: story points and subtask of a Bug
story_points_of_bug(issue, err_list) ==
    IF issue.fields.customfield_10408 = None
    THEN err_list \o <<"No StoryPoints", "No SubTask">>
    ELSE IF issue.fields.customfield_10408[1] > 3 /\ issue.fields.issuetype.subtask = FALSE
    THEN Append(err_list, "No SubTask")
    ELSE err_list

\* check_bug reporting one "No Verification" per missing marker
check_bug_per_marker(issue, now) ==
    LET comment == comment_text(issue)
        e1 == IF ~InList("[analyse]", comment)
              THEN <<"No Analyse">> ELSE << >>
        e2 == IF ~InList("[solution]", comment)
              THEN Append(e1, "No Solution") ELSE e1
        e3 == IF ~InList("[commitlink]", comment)
              THEN Append(e2, "No Code") ELSE e2
        e4 == IF ~InList("[version]", comment)
              THEN Append(e3, "No Verification") ELSE e3
        e5 == IF ~InList("[steps]", comment)
              THEN Append(e4, "No Verification") ELSE e4
        e6 == IF ~InList("[result]", comment)
              THEN Append(e5, "No Verification") ELSE e5
    IN common_problem(issue, story_points_of_bug(issue, e6), now)

\* lines 207-232: JiraCheckTool.check_bug
check_bug(issue, now) ==
    LET comment == comment_text(issue)
        e1 == IF ~InList("[analyse]", comment)
              THEN <<"No Analyse">> ELSE << >>
        e2 == IF ~InList("[solution]", comment)
              THEN Append(e1, "No Solution") ELSE e1
        e3 == IF ~InList("[commitlink]", comment)
              THEN Append(e2, "No Code") ELSE e2
        e4 == IF \/ ~InList("[version]", comment)
                 \/ ~InList("[steps]", comment)
                 \/ ~InList("[result]", comment)
              THEN Append(e3, "No Verification") ELSE e3
    IN common_problem(issue, story_points_of_bug(issue, e4), now)

\* lines 236-240: JiraCheckTool.check_review
check_review(issue, now) ==
    LET e1 == IF issue.fields.customfield_10408 = None
              THEN <<"No StoryPoints">> ELSE << >>
    IN common_problem(issue, e1, now)

\* check_issue running the Review checks on a type it does not know
check_issue_default_review(issue, now) ==
    IF issue.fields.issuetype.name = "Story" \/ issue.fields.issuetype.name = "GuShi"
    THEN check_story(issue, now)
    ELSE IF issue.fields.issuetype.name = "Bug" \/ issue.fields.issuetype.name = "QueXian"
    THEN check_bug(issue, now)
    ELSE check_review(issue, now)

\* lines 143-152: JiraCheckTool.check_issue
check_issue(issue, now) ==
    IF issue.fields.issuetype.name = "Story" \/ issue.fields.issuetype.name = "GuShi"
    THEN check_story(issue, now)
    ELSE IF issue.fields.issuetype.name = "Bug" \/ issue.fields.issuetype.name = "QueXian"
    THEN check_bug(issue, now)
    ELSE IF issue.fields.issuetype.name = "Review"
    THEN check_review(issue, now)
    ELSE Return(<< >>)

\* ------------------------------------------------------------ inputs
TypeNames == {"Story", "GuShi", "Bug", "QueXian", "Review", "Task"}

\* 'YYYY-MM-DD' strings: two days, and one that strptime rejects (month 13)
DueDates ==
    { None,
      Some([y |-> 2024, m |-> 1, d |-> 2]),
      Some([y |-> 2024, m |-> 1, d |-> 3]),
      Some([y |-> 2024, m |-> 13, d |-> 1]) }

\* resolution timestamps: late on Jan 2, the first hour of Jan 3, and one
\* that strptime rejects (hour 24)
ResolutionDates ==
    { None,
      Some([y |-> 2024, m |-> 1, d |-> 2, H |-> 23, tz |-> "-0800"]),
      Some([y |-> 2024, m |-> 1, d |-> 3, H |-> 0, tz |-> "+0800"]),
      Some([y |-> 2024, m |-> 1, d |-> 3, H |-> 24, tz |-> "+0800"]) }

FixVersionLists == { << >>, <<"v1.0">> }
ComponentLists == { <<"other">>, <<"other", "chengdu">> }
LabelValues == { None, Some(<< >>) }
ImplementerValues == { None, Some("alice") }
SecurityValues ==
    { None, Some([name |-> "Askey-Secure"]), Some([name |-> "Public"]) }
StoryPointValues == { None, Some(3), Some(4), Some(5) }

CommentLists ==
    { << >>,
      << <<"[COMMITLINK]", "Done">> >>,
      << <<"[Version]", "[STEPS]">>, <<"[Analyse]">> >>,
      << <<"[commitlink]", "[version]">>,
         <<"[steps]", "[Result]", "[analyse]", "[SOLUTION]">> >> }

\* every combination of the field values above
IssueSpace ==
    [ issuetype : [name : TypeNames, subtask : BOOLEAN],
      duedate : DueDates,
      resolutiondate : ResolutionDates,
      fixVersions : FixVersionLists,
      components : ComponentLists,
      labels : LabelValues,
      customfield_11807 : ImplementerValues,
      security : SecurityValues,
      customfield_10408 : StoryPointValues,
      comment : [comments : CommentLists] ]

\* the pool for runs over several projects and issues
\* a Story that is in order until its due date (Jan 2) has passed
StoryDueJan2 ==
    [ issuetype |-> [name |-> "Story", subtask |-> FALSE],
      duedate |-> Some([y |-> 2024, m |-> 1, d |-> 2]),
      resolutiondate |-> None,
      fixVersions |-> <<"v1.0">>,
      components |-> <<"other", "chengdu">>,
      labels |-> Some(<< >>),
      customfield_11807 |-> Some("alice"),
      security |-> Some([name |-> "Askey-Secure"]),
      customfield_10408 |-> Some(3),
      comment |-> [comments |-> << <<"[commitlink]", "[version]">>,
                                   <<"[steps]", "[Result]">> >>] ]

\* a Review with violations and without a security level
ReviewNoSecurity ==
    [StoryDueJan2 EXCEPT !.issuetype.name = "Review", !.security = None,
                         !.customfield_10408 = None, !.duedate = None]

IssuePool == { StoryDueJan2, ReviewNoSecurity }

\* any sequence of up to MaxIssues field records drawn from `space`
FieldLists(space) == UNION { [1..n -> space] : n \in 0..MaxIssues }

\* the issues of project number q, keyed by project and position
Keyed(q, fl) == [j \in 1..Len(fl) |-> [key |-> <<q, j>>, fields |-> fl[j]]]

\* the query result (line 284): project q of the list, with its issues
Projects(n, g) == [q \in 1..n |-> [name |-> q, issues |-> Keyed(q, g[q])]]

\* ------------------------------------------------------------ state
VARIABLES
    list_project,            \* main: the queried projects (line 284)
    clock,                   \* the wall clock, in hours after 2024-01-02 00:00
    pc,                      \* "check": in get_project_problem; "done"; "crashed"
    p,                       \* main: position of `project` in list_project
    i,                       \* get_project_problem: position of `issue`
    unqualified_issue_dict,  \* get_project_problem: the dict being built
    evaluated,               \* history: every check_issue call that returned
    returned,                \* history: the dict get_project_problem returned, per project
    reports,                 \* history: the calls of the report formatter
    sent                     \* history: the calls of DingDing.send_message

vars == <<list_project, clock, pc, p, i, unqualified_issue_dict,
          evaluated, returned, reports, sent>>

\* a Python dict is the sequence of its items in insertion order
dict_keys(dict) == { dict[n].key : n \in 1..Len(dict) }
dict_get(dict, k) == (CHOOSE n \in 1..Len(dict) : dict[n].key = k)
dict_value(dict, k) == dict[dict_get(dict, k)].val
\* dict[k] = v
dict_set(dict, k, v) ==
    IF k \in dict_keys(dict)
    THEN [dict EXCEPT ![dict_get(dict, k)].val = v]
    ELSE Append(dict, [key |-> k, val |-> v])

\* store_unqualified without the test of line 137
store_unqualified_always(dict, key, unqualified_issue) ==
    dict_set(dict, key, unqualified_issue)

\* lines 137-138: an issue is stored only with a non-empty list
store_unqualified(dict, key, unqualified_issue) ==
    IF Len(unqualified_issue) # 0
    THEN dict_set(dict, key, unqualified_issue)
    ELSE dict

\* has_problem without the test of line 290
has_problem_always(project_issue_dict) == TRUE

\* line 290: a report is made only of a non-empty dict
has_problem(project_issue_dict) == Len(project_issue_dict) # 0

\* lines 247-254: the tag line, the project name, one line per item
generate_project_dingding_report_by_issue_dict(project_name, issue_dict, tag) ==
    <<tag, project_name>> \o
    [n \in 1..Len(issue_dict) |-> <<issue_dict[n].key, issue_dict[n].val>>]

RobotTag == "tag"

Project == list_project[p]
Issue == Project.issues[i]

StartPc(projects) == IF Len(projects) = 0 THEN "done" ELSE "check"

InitRun(projects) ==
    /\ list_project = projects
    /\ clock \in 0..MaxClock
    /\ pc = StartPc(projects)
    /\ p = 1
    /\ i = 1
    /\ unqualified_issue_dict = << >>
    /\ evaluated = << >>
    /\ returned = << >>
    /\ reports = << >>
    /\ sent = << >>

\* a run over several projects with issues of the pool
Init ==
    \E n \in 0..MaxProjects :
        \E g \in [1..n -> FieldLists(IssuePool)] : InitRun(Projects(n, g))

\* a run over one project with one issue, of any field values
InitIssue ==
    \E f \in IssueSpace :
        InitRun(Projects(1, << <<f>> >>))

\* the wall clock advances while the run proceeds
Tick ==
    /\ pc = "check"
    /\ clock < MaxClock
    /\ clock' = clock + 1
    /\ UNCHANGED <<list_project, pc, p, i, unqualified_issue_dict,
                   evaluated, returned, reports, sent>>

\* lines 135-138: one iteration of the loop, check_issue returns
CheckIssueReturns ==
    /\ pc = "check"
    /\ i <= Len(Project.issues)
    /\ LET unqualified_issue == check_issue(Issue, now_at(clock))
       IN /\ unqualified_issue.exc = NoExc
          /\ unqualified_issue_dict' =
                 store_unqualified(unqualified_issue_dict, Issue.key,
                                   unqualified_issue.val)
          /\ evaluated' = Append(evaluated,
                 [project |-> p, key |-> Issue.key, now |-> now_at(clock),
                  val |-> unqualified_issue.val])
    /\ i' = i + 1
    /\ UNCHANGED <<list_project, clock, pc, p, returned, reports, sent>>

\* lines 135-136: check_issue raises; nothing in get_project_problem or in
\* main catches it (lines 288, 300), so the run ends there
CheckIssueRaises ==
    /\ pc = "check"
    /\ i <= Len(Project.issues)
    /\ check_issue(Issue, now_at(clock)).exc # NoExc
    /\ pc' = "crashed"
    /\ UNCHANGED <<list_project, clock, p, i, unqualified_issue_dict,
                   evaluated, returned, reports, sent>>

\* line 139 and lines 288-295: the dict is returned, reported if it has an
\* item, and main goes on to the next project (line 134 starts a new dict)
FinishProject ==
    /\ pc = "check"
    /\ i > Len(Project.issues)
    /\ returned' = Append(returned, unqualified_issue_dict)
    /\ IF has_problem(unqualified_issue_dict)
       THEN LET report == generate_project_dingding_report_by_issue_dict(
                              Project.name, unqualified_issue_dict, RobotTag)
            IN /\ reports' = Append(reports,
                      [project |-> p, issue_dict |-> unqualified_issue_dict,
                       report |-> report])
               /\ sent' = Append(sent, [project |-> p, msg |-> report])
       ELSE UNCHANGED <<reports, sent>>
    /\ unqualified_issue_dict' = << >>
    /\ i' = 1
    /\ IF p < Len(list_project)
       THEN p' = p + 1 /\ pc' = "check"
       ELSE p' = p /\ pc' = "done"
    /\ UNCHANGED <<list_project, clock, evaluated>>

Next ==
    \/ Tick
    \/ CheckIssueReturns
    \/ CheckIssueRaises
    \/ FinishProject

Spec == Init /\ [][Next]_vars

SpecIssue == InitIssue /\ [][Next]_vars

\* ------------------------------------------------------------ properties
\* the issue an entry of `evaluated` is about
IssueOf(e) == list_project[e.key[1]].issues[e.key[2]]

\* Under SpecIssue the run has one project with one issue.
TheIssue == list_project[1].issues[1]
TheFields == TheIssue.fields
\* the call of check_issue on it has ended, by a return or by an exception
Ended == pc \in {"done", "crashed"} \/ i > 1
\* it returned a list
Listed == Len(evaluated) = 1
TheList == evaluated[1].val
TheNow == evaluated[1].now

IsStory(f) == f.issuetype.name \in {"Story", "GuShi"}
IsBug(f) == f.issuetype.name \in {"Bug", "QueXian"}
IsReview(f) == f.issuetype.name = "Review"
IsTyped(f) == IsStory(f) \/ IsBug(f) \/ IsReview(f)

\* the scenario of C1
C1_Scenario ==
    /\ TheFields.issuetype = [name |-> "Story", subtask |-> FALSE]
    /\ TheFields.duedate = None
    /\ TheFields.fixVersions = << >>
    /\ TheFields.components = <<"other">>
    /\ TheFields.labels = None
    /\ TheFields.customfield_11807 = None
    /\ TheFields.security = Some([name |-> "Askey-Secure"])
    /\ TheFields.customfield_10408 = Some(5)
    /\ TheFields.comment.comments = << >>

\* C1 as claimed: the scenario yields the list that has "No StoryPoints"
C1_AsClaimed ==
    (Ended /\ C1_Scenario) =>
        /\ Listed
        /\ TheList = <<"No Code", "No Verification", "No StoryPoints", "No SubTask",
                       "No DudeDate", "No FixVersions", "No Component Chengdu",
                       "No Labels", "No Implementer">>

\* C1, amended: the scenario (a Story with storyPoints = 5 and the rest as
\* claimed) yields exactly [NoCode, NoVerification, NoSubTask, NoDueDate,
\* NoFixVersions, NoComponentChengdu, NoLabels, NoImplementer]: the story
\* points are present, so NoStoryPoints is not in the list.
C1_EndToEnd ==
    (Ended /\ C1_Scenario) =>
        /\ Listed
        /\ TheList = <<"No Code", "No Verification", "No SubTask",
                       "No DudeDate", "No FixVersions", "No Component Chengdu",
                       "No Labels", "No Implementer">>

C1_Witness == Ended /\ C1_Scenario /\ Listed /\ Len(TheList) = 8

\* '2024-13-01'-like strings: strptime rejects them
Unparsable(d) == d # None /\ ~ValidDate(d[1])

\* C2 as claimed: evaluating a Story, Bug or Review issue always returns a
\* violation list, which contains NoAskeySecure when the security level is
\* absent and NoDueDate when the due date does not parse.
C2_NeverRaises ==
    (Ended /\ IsTyped(TheFields)) =>
        /\ Listed
        /\ TheFields.security = None => InList("No Askey-Secure", TheList)
        /\ Unparsable(TheFields.duedate) => InList("No DudeDate", TheList)

\* C7 as claimed: every issue whose type is not Story, Bug or Review gets
\* the empty list and no entry in the index (stated of the calls that return).
C7_AsClaimed ==
    (Ended /\ Listed /\ TheFields.issuetype.name \notin {"Story", "Bug", "Review"}) =>
        /\ TheList = << >>
        /\ unqualified_issue_dict = << >>
        /\ \A q \in 1..Len(returned) : returned[q] = << >>

\* C7, amended: every issue whose type name is none of Story, GuShi, Bug,
\* QueXian, Review (the five names check_issue knows) gets the empty list,
\* whatever its other fields, and no entry in the project's index.
C7_UnknownType ==
    (Ended /\ ~IsTyped(TheFields)) =>
        /\ Listed /\ TheList = << >>
        /\ unqualified_issue_dict = << >>
        /\ \A q \in 1..Len(returned) : returned[q] = << >>

C7_Witness ==
    /\ pc = "done"
    /\ TheFields.issuetype.name = "Task"
    /\ TheFields.security = None
    /\ Unparsable(TheFields.duedate)
    /\ Listed /\ returned = << << >> >>

\* chronological order of dates and times, as a number
DayNumber(t) == (t.y * 12 + t.m) * 31 + t.d
HourNumber(t) == DayNumber(t) * 24 + t.H

\* C8: in every list returned for a Story, Bug or Review issue: no due date
\* gives NoDueDate and not Delay; a due date and no resolution date gives
\* Delay exactly when now is after the due date (its midnight); a due date
\* and a resolution date gives Delay exactly when the resolution's calendar
\* date is after the due date; NoDueDate and Delay are never both there.
C8_DueDateTable ==
    (Ended /\ Listed /\ IsTyped(TheFields)) =>
        LET due == TheFields.duedate
            res == TheFields.resolutiondate
            noDue == InList("No DudeDate", TheList)
            delay == InList("Delay", TheList)
        IN /\ due = None => (noDue /\ ~delay)
           /\ (due # None /\ res = None) =>
                 /\ ~noDue
                 /\ delay <=> HourNumber(TheNow) > DayNumber(due[1]) * 24
           /\ (due # None /\ res # None) =>
                 /\ ~noDue
                 /\ delay <=> DayNumber(res[1]) > DayNumber(due[1])
           /\ ~(noDue /\ delay)

\* a resolution late on the due date itself, and no Delay
C8_Witness ==
    /\ Ended /\ Listed /\ IsTyped(TheFields)
    /\ TheFields.duedate = Some([y |-> 2024, m |-> 1, d |-> 2])
    /\ TheFields.resolutiondate # None
    /\ TheFields.resolutiondate[1].d = 2
    /\ ~InList("Delay", TheList)

\* C9: in every list returned for a Story or a Bug: no story points gives
\* NoStoryPoints and NoSubTask; story points give NoSubTask exactly when they
\* are above 3 and the issue is no subtask; NoStoryPoints is there only when
\* the story points are absent. A list returned for a Review has no NoSubTask.
C9_StoryPoints ==
    (Ended /\ Listed) =>
        LET sp == TheFields.customfield_10408
            noPoints == InList("No StoryPoints", TheList)
            noSub == InList("No SubTask", TheList)
        IN /\ (IsStory(TheFields) \/ IsBug(TheFields)) =>
                 /\ sp = None => (noPoints /\ noSub)
                 /\ sp # None =>
                       (noSub <=> (sp[1] > 3 /\ ~TheFields.issuetype.subtask))
                 /\ noPoints <=> sp = None
           /\ IsReview(TheFields) => ~noSub

C9_Witness ==
    /\ Ended /\ Listed /\ IsBug(TheFields)
    /\ TheFields.customfield_10408 = Some(3)
    /\ ~TheFields.issuetype.subtask
    /\ ~InList("No SubTask", TheList)

\* the place of a code in the order of the checks
Rank(code) ==
    CASE code = "No Analyse" -> 1
      [] code = "No Solution" -> 2
      [] code = "No Code" -> 3
      [] code = "No Verification" -> 4
      [] code = "No StoryPoints" -> 5
      [] code = "No SubTask" -> 6
      [] code = "No DudeDate" -> 7
      [] code = "Delay" -> 7
      [] code = "No FixVersions" -> 8
      [] code = "No Component Chengdu" -> 9
      [] code = "No Labels" -> 10
      [] code = "No Implementer" -> 11
      [] code = "No Askey-Secure" -> 12
      [] OTHER -> 0

\* the ranks of the type-specific codes of a type
TypeRanks(f) ==
    IF IsStory(f) THEN 3..6 ELSE IF IsBug(f) THEN 1..6 ELSE {5}

\* C10: every list returned for a Story, Bug or Review issue has the codes of
\* its type (Story: NoCode, NoVerification, NoStoryPoints, NoSubTask; Bug:
\* NoAnalyse, NoSolution before these; Review: NoStoryPoints) in that order,
\* then the common codes in the order NoDueDate or Delay, NoFixVersions,
\* NoComponentChengdu, NoLabels, NoImplementer, NoAskeySecure, and no code
\* twice.
C10_Order ==
    (Ended /\ Listed /\ IsTyped(TheFields)) =>
        /\ \A n \in 1..Len(TheList) :
               Rank(TheList[n]) \in TypeRanks(TheFields) \cup (7..12)
        /\ \A m, n \in 1..Len(TheList) :
               m < n => Rank(TheList[m]) < Rank(TheList[n])

\* a Bug with [version] and [steps] but no [result]: one NoVerification,
\* between the codes of the type and the common codes
C10_Witness ==
    /\ Ended /\ Listed /\ IsBug(TheFields)
    /\ InList("[version]", comment_text(TheIssue))
    /\ ~InList("[result]", comment_text(TheIssue))
    /\ InList("No Verification", TheList)
    /\ InList("No Solution", TheList)
    /\ InList("Delay", TheList)
    /\ InList("No Askey-Secure", TheList)

\* ------------------------------------------------------------ runs
\* the run is over: main returned, or an exception ended it
RunOver == pc \in {"done", "crashed"}
\* number of entries of a history that are about project q
CallsFor(history, q) ==
    Cardinality({ n \in 1..Len(history) : history[n].project = q })
\* project q has not returned its dict yet
Building(q) == q = p /\ Len(returned) < q

\* C3 as claimed: when the run is over, every issue whose evaluation does
\* not fail has been evaluated, also when the evaluation of some other issue
\* failed; if its list is not empty it is in the returned index of its
\* project with that list, and the project has been reported.
C3_BadRecordIsolated ==
    RunOver =>
        \A q \in 1..Len(list_project) :
            \A j \in 1..Len(list_project[q].issues) :
                LET issue == list_project[q].issues[j]
                IN check_issue(issue, now_at(clock)).exc = NoExc =>
                      \E n \in 1..Len(evaluated) :
                          /\ evaluated[n].key = issue.key
                          /\ evaluated[n].val # << >> =>
                                /\ q <= Len(returned)
                                /\ issue.key \in dict_keys(returned[q])
                                /\ dict_value(returned[q], issue.key) = evaluated[n].val
                                /\ CallsFor(reports, q) = 1
                                /\ CallsFor(sent, q) = 1

\* C4 as claimed: two issues of a run with the same due date and no
\* resolution date both have Delay or both have not.
C4_SameNow ==
    \A m, n \in 1..Len(evaluated) :
        LET a == IssueOf(evaluated[m]).fields
            b == IssueOf(evaluated[n]).fields
        IN (/\ a.duedate # None
            /\ a.duedate = b.duedate
            /\ a.resolutiondate = None
            /\ b.resolutiondate = None) =>
               (InList("Delay", evaluated[m].val) <=> InList("Delay", evaluated[n].val))

\* C5: the dict being built and every dict returned map no key to an empty
\* list; a checked issue's key is in the dict of its project exactly when
\* check_issue gave a non-empty list for it, and is mapped to that list; the
\* dict has no other keys; a project without issues gets the empty dict.
C5_NoEmptyEntry ==
    /\ \A n \in 1..Len(unqualified_issue_dict) :
           unqualified_issue_dict[n].val # << >>
    /\ \A q \in 1..Len(returned) :
           /\ \A n \in 1..Len(returned[q]) : returned[q][n].val # << >>
           /\ list_project[q].issues = << >> => returned[q] = << >>
    /\ \A n \in 1..Len(evaluated) :
           LET e == evaluated[n]
               dict == IF Building(e.project) THEN unqualified_issue_dict
                       ELSE returned[e.project]
           IN /\ e.key \in dict_keys(dict) <=> e.val # << >>
              /\ e.val # << >> => dict_value(dict, e.key) = e.val
    /\ \A k \in dict_keys(unqualified_issue_dict) :
           \E n \in 1..Len(evaluated) : evaluated[n].key = k /\ k[1] = p
    /\ \A q \in 1..Len(returned) :
           \A k \in dict_keys(returned[q]) :
               \E n \in 1..Len(evaluated) : evaluated[n].key = k /\ k[1] = q

\* a dict being built that has the second issue of the project and not the
\* first, whose list was empty
C5_Witness ==
    /\ pc = "check" /\ i = 3
    /\ Len(evaluated) >= 2
    /\ dict_keys(unqualified_issue_dict) = { <<p, 2>> }

\* C6: the formatter and send_message are called for a project exactly once
\* when its dict has been returned and is not empty, with that dict, and
\* never otherwise: not for an empty dict, not for a project without issues.
C6_ReportOnlyNonEmpty ==
    /\ \A q \in 1..Len(list_project) :
           LET due == q <= Len(returned) /\ returned[q] # << >>
           IN /\ CallsFor(reports, q) = (IF due THEN 1 ELSE 0)
              /\ CallsFor(sent, q) = (IF due THEN 1 ELSE 0)
    /\ \A n \in 1..Len(reports) :
           /\ reports[n].issue_dict = returned[reports[n].project]
           /\ sent[n].msg = reports[n].report
    /\ Len(sent) = Len(reports)

\* a finished run with one project reported and one, without issues, not
C6_Witness ==
    /\ pc = "done"
    /\ Len(returned) = 2
    /\ list_project[1].issues = << >>
    /\ returned[2] # << >>
    /\ Len(reports) = 1 /\ reports[1].project = 2
    /\ Len(sent) = 1

====
